---- MODULE Spec2Model ----
(***************************************************************************)
(* Retrieval-and-answer pipeline of the repository: the keyword retriever, *)
(* prompt assembly, the generator adapter (llm.invoke) with its fallback   *)
(* extractor (llm.extractAnswer) and the chain orchestrator (chain.invoke).*)
(* The repository holds two programs that share everything but llm.invoke: *)
(* repo-rag.js (src/unnamed/part_000), whose adapter never calls the       *)
(* generation service, and repo-rag-debug.js (src/debug.js), whose adapter *)
(* calls it.  JavaScript strings are TLA+ strings; a character is a string *)
(* of length one.  A value a function computes once and reads several      *)
(* times is handed on as a parameter.                                      *)
(***************************************************************************)
EXTENDS Integers, Sequences, FiniteSets, TLC

(***************************************************************************)
(* Strings.                                                                *)
(***************************************************************************)
CharAt(s, i) == SubSeq(s, i, i)

Min(a, b) == IF a < b THEN a ELSE b

\* \s of a JavaScript regular expression, over the characters the inputs use.
IsSpace(c) == c \in {" ", "\n", "\t"}

\* \d of a JavaScript regular expression.
IsDigit(c) == c \in {"0", "1", "2", "3", "4", "5", "6", "7", "8", "9"}

\* The dot of a JavaScript regular expression (no s flag): any character but
\* a line terminator.
IsDot(c) == c # "\n"

UpperToLower ==
  ("A" :> "a") @@ ("B" :> "b") @@ ("C" :> "c") @@ ("D" :> "d") @@ ("E" :> "e") @@
  ("F" :> "f") @@ ("G" :> "g") @@ ("H" :> "h") @@ ("I" :> "i") @@ ("J" :> "j") @@
  ("K" :> "k") @@ ("L" :> "l") @@ ("M" :> "m") @@ ("N" :> "n") @@ ("O" :> "o") @@
  ("P" :> "p") @@ ("Q" :> "q") @@ ("R" :> "r") @@ ("S" :> "s") @@ ("T" :> "t") @@
  ("U" :> "u") @@ ("V" :> "v") @@ ("W" :> "w") @@ ("X" :> "x") @@ ("Y" :> "y") @@
  ("Z" :> "z")

LowerChar(c) == IF c \in DOMAIN UpperToLower THEN UpperToLower[c] ELSE c

RECURSIVE toLowerCase(_)
\* String.prototype.toLowerCase: every character lowered, the string taken by
\* halves.
toLowerCase(s) ==
  IF Len(s) = 0 THEN ""
  ELSE IF Len(s) = 1 THEN LowerChar(s)
  ELSE toLowerCase(SubSeq(s, 1, Len(s) \div 2))
       \o toLowerCase(SubSeq(s, Len(s) \div 2 + 1, Len(s)))

\* Whether pat occurs in s at position i (1-based).
StartsAt(s, pat, i) ==
  /\ i >= 1
  /\ i + Len(pat) - 1 <= Len(s)
  /\ SubSeq(s, i, i + Len(pat) - 1) = pat

\* The least number of a set of numbers, 0 for the empty set.
LeastOr0(S) == IF S = {} THEN 0 ELSE CHOOSE i \in S : \A j \in S : i <= j

\* String.prototype.indexOf, 1-based: the first position at or after from
\* where pat occurs, 0 when there is none.
IndexOf(s, pat, from) ==
  LeastOr0({i \in from..(Len(s) - Len(pat) + 1) : StartsAt(s, pat, i)})

\* String.prototype.includes
includes(s, pat) == IndexOf(s, pat, 1) # 0

RECURSIVE join(_, _)
\* Array.prototype.join
join(parts, sep) ==
  IF Len(parts) = 0 THEN ""
  ELSE IF Len(parts) = 1 THEN parts[1]
  ELSE parts[1] \o sep \o join(Tail(parts), sep)

RECURSIVE SkipSpaces(_, _)
\* The position after the run of whitespace that starts at p (\s* or \s+).
SkipSpaces(s, p) ==
  IF p <= Len(s) /\ IsSpace(CharAt(s, p)) THEN SkipSpaces(s, p + 1) ELSE p

RECURSIVE SkipDigits(_, _)
\* The position after the run of digits that starts at p (\d+).
SkipDigits(s, p) ==
  IF p <= Len(s) /\ IsDigit(CharAt(s, p)) THEN SkipDigits(s, p + 1) ELSE p

RECURSIVE SkipToken(_, _)
\* The position after the run of non-whitespace that starts at p.
SkipToken(s, p) ==
  IF p <= Len(s) /\ ~IsSpace(CharAt(s, p)) THEN SkipToken(s, p + 1) ELSE p

RECURSIVE SplitFrom(_, _)
RECURSIVE SplitToken(_, _, _)
\* The tokens of s from position p on, p at the start of a token.
SplitFrom(s, p) == SplitToken(s, p, SkipToken(s, p))

\* The token that starts at p and ends before e, and the tokens after it.
SplitToken(s, p, e) ==
  IF e > Len(s) THEN <<SubSeq(s, p, e - 1)>>
  ELSE <<SubSeq(s, p, e - 1)>> \o SplitFrom(s, SkipSpaces(s, e))

\* String.prototype.split(/\s+/): the pieces between maximal whitespace runs,
\* the empty pieces at either end included.
split(s) == SplitFrom(s, 1)

(***************************************************************************)
(* new RegExp(kw, 'g') and String.prototype.match, for the pattern syntax  *)
(* the questions of this model use: a literal character, the wildcard dot, *)
(* and the quantifiers + ? * after an atom, each optionally made lazy by a *)
(* following ?.    A quantifier with no atom before it is the SyntaxError  *)
(* "Nothing to repeat".                                                    *)
(***************************************************************************)
Quantifiers == {"+", "?", "*"}

\* Whether the atom at i carries a quantifier, and whether that one is lazy.
Quantified(kw, i) == i + 1 <= Len(kw) /\ CharAt(kw, i + 1) \in Quantifiers
Lazy(kw, i) == Quantified(kw, i) /\ i + 2 <= Len(kw) /\ CharAt(kw, i + 2) = "?"

\* The number of characters the term starting at i takes in the pattern.
TermWidth(kw, i) ==
  1 + (IF Quantified(kw, i) THEN 1 ELSE 0) + (IF Lazy(kw, i) THEN 1 ELSE 0)

RECURSIVE RegExpValidFrom(_, _)
RegExpValidFrom(kw, i) ==
  IF i > Len(kw) THEN TRUE
  ELSE IF CharAt(kw, i) \in Quantifiers THEN FALSE
  ELSE RegExpValidFrom(kw, i + TermWidth(kw, i))

\* Whether new RegExp(kw, 'g') constructs (TRUE) or throws a SyntaxError.
RegExpValid(kw) == RegExpValidFrom(kw, 1)

\* A term: an atom with its repetition bounds (max -1 is unbounded) and
\* greediness; q is its quantifier, "" when it has none.
Term(atom, q, lazy) ==
  [atom   |-> atom,
   min    |-> IF q = "+" \/ q = "" THEN 1 ELSE 0,
   max    |-> IF q = "" \/ q = "?" THEN 1 ELSE -1,
   greedy |-> ~lazy]

RECURSIVE RegExpTerms(_, _)
\* The pattern as its terms.
RegExpTerms(kw, i) ==
  IF i > Len(kw) THEN <<>>
  ELSE <<Term(CharAt(kw, i),
              IF Quantified(kw, i) THEN CharAt(kw, i + 1) ELSE "",
              Lazy(kw, i))>>
       \o RegExpTerms(kw, i + TermWidth(kw, i))

AtomMatches(atom, c) == IF atom = "." THEN IsDot(c) ELSE c = atom

RECURSIVE RunLength(_, _, _, _)
\* How many characters from p on match the atom, at most max of them.
RunLength(atom, text, p, max) ==
  IF max # 0 /\ p <= Len(text) /\ AtomMatches(atom, CharAt(text, p))
  THEN 1 + RunLength(atom, text, p + 1, IF max = -1 THEN -1 ELSE max - 1)
  ELSE 0

RECURSIVE MatchHere(_, _, _, _)
RECURSIVE MatchTerm(_, _, _, _, _, _)
RECURSIVE TryCount(_, _, _, _, _, _, _)
RECURSIVE TryNext(_, _, _, _, _, _, _, _)
\* The backtracking matcher: the position after a match of terms i.. that
\* starts at p, 0 when there is none.
MatchHere(terms, i, text, p) ==
  IF i > Len(terms) THEN p
  ELSE MatchTerm(terms, i, text, p, terms[i],
                 RunLength(terms[i].atom, text, p, terms[i].max))

\* Term t = terms[i], which can repeat avail times at p.
MatchTerm(terms, i, text, p, t, avail) ==
  IF avail < t.min THEN 0
  ELSE IF t.greedy THEN TryCount(terms, i, text, p, avail, t.min, -1)
  ELSE TryCount(terms, i, text, p, t.min, avail, 1)

\* Term i repeated k times, then k + step, ..., up to last.
TryCount(terms, i, text, p, k, last, step) ==
  TryNext(terms, i, text, p, k, last, step, MatchHere(terms, i + 1, text, p + k))

\* e is where the rest matched after k repetitions, 0 when it did not.
TryNext(terms, i, text, p, k, last, step, e) ==
  IF e # 0 THEN e
  ELSE IF k = last THEN 0
  ELSE TryCount(terms, i, text, p, k + step, last, step)

\* The least start at or after lastIndex where the terms match, 0 when there
\* is none: the leftmost match of RegExp.prototype.exec.
MatchStart(terms, text, lastIndex) ==
  LeastOr0({s \in lastIndex..(Len(text) + 1) : MatchHere(terms, 1, text, s) # 0})

RECURSIVE MatchCountFrom(_, _, _)
RECURSIVE MatchCountAt(_, _, _)
\* (text.match(regex) || []).length for a global regex: the matches are taken
\* left to right without overlap, and an empty match advances by one.
MatchCountFrom(terms, text, lastIndex) ==
  MatchCountAt(terms, text, MatchStart(terms, text, lastIndex))

\* The next match starts at s (0: there is none).
MatchCountAt(terms, text, s) ==
  IF s = 0 THEN 0
  ELSE IF MatchHere(terms, 1, text, s) = s
  THEN 1 + MatchCountFrom(terms, text, s + 1)
  ELSE 1 + MatchCountFrom(terms, text, MatchHere(terms, 1, text, s))

MatchCount(kw, text) == MatchCountFrom(RegExpTerms(kw, 1), text, 1)

\* The message of the SyntaxError that new RegExp(kw, 'g') throws; its wording
\* is the engine's (V8 prints the flags in newer releases).
SyntaxErrorMessages(kw) ==
  { "Invalid regular expression: /" \o kw \o "/: Nothing to repeat",
    "Invalid regular expression: /" \o kw \o "/g: Nothing to repeat" }

(***************************************************************************)
(* retriever.invoke.  A document is a record with its pageContent; a       *)
(* scored chunk refers to its document by the document's index in          *)
(* dataStore.docs.                                                         *)
(***************************************************************************)
\* slice(0, 6): the number of documents returned.
K == 6

\* The filter that would keep the tokens of two characters too.
LongerThanOne(w) == Len(w) > 1

\* w => w.length > 2
LongerThanTwo(w) == Len(w) > 2

\* questionLower.split(/\s+/).filter(w => w.length > 2)
keywordsOf(question) == SelectSeq(split(toLowerCase(question)), LongerThanTwo)

RECURSIVE matchCount(_, _)
\* keywords.reduce((count, kw) => count + (contentLower.match(regex) || []).length, 0)
matchCount(keywords, contentLower) ==
  IF Len(keywords) = 0 THEN 0
  ELSE MatchCount(Head(keywords), contentLower)
       + matchCount(Tail(keywords), contentLower)

\* The first keyword whose RegExp does not construct, "" when all do.
FirstInvalid(keywords) ==
  IF \A i \in 1..Len(keywords) : RegExpValid(keywords[i]) THEN ""
  ELSE keywords[LeastOr0({i \in 1..Len(keywords) : ~RegExpValid(keywords[i])})]

\* dataStore.docs.map(doc => ({doc, score: matchCount}))
scoresOf(keywords, docs) ==
  [i \in 1..Len(docs) |->
     [doc |-> i, score |-> matchCount(keywords, toLowerCase(docs[i].pageContent))]]

\* The comparator of an ascending sort.
compare_ascending(a, b) == a.score - b.score

\* (a, b) => b.score - a.score
compare(a, b) == b.score - a.score

RECURSIVE insertSorted(_, _)
\* x, which came after every element of the sorted seq, put behind every
\* element that does not compare after it.
insertSorted(seq, x) ==
  IF Len(seq) = 0 THEN <<x>>
  ELSE IF compare(seq[Len(seq)], x) <= 0 THEN Append(seq, x)
  ELSE Append(insertSorted(SubSeq(seq, 1, Len(seq) - 1), x), seq[Len(seq)])

RECURSIVE sort(_)
\* Array.prototype.sort with the comparator above; the sort is stable.
sort(seq) ==
  IF Len(seq) = 0 THEN <<>>
  ELSE insertSorted(sort(SubSeq(seq, 1, Len(seq) - 1)), seq[Len(seq)])

\* slice(0, n)
slice(seq, n) == SubSeq(seq, 1, Min(n, Len(seq)))

\* .map(item => item.doc.pageContent).join('\n\n')
contextOf(top, docs) ==
  join([j \in 1..Len(top) |-> docs[top[j].doc].pageContent], "\n\n")

\* The call that threw while it built the RegExp of keyword bad.
retrievedThrow(keywords, bad) ==
  [threw |-> TRUE, pattern |-> bad, keywords |-> keywords,
   scores |-> <<>>, top |-> <<>>, context |-> ""]

\* The call that returned, top its sorted and sliced chunks.
retrievedTop(keywords, scores, top, docs) ==
  [threw |-> FALSE, pattern |-> "", keywords |-> keywords,
   scores |-> scores, top |-> top, context |-> contextOf(top, docs)]

retrievedScores(keywords, scores, docs) ==
  retrievedTop(keywords, scores, slice(sort(scores), K), docs)

retrievedKeywords(keywords, bad, docs) ==
  IF bad # "" THEN retrievedThrow(keywords, bad)
  ELSE retrievedScores(keywords, scoresOf(keywords, docs), docs)

\* What one call of retriever.invoke computes.  The RegExp of a keyword is
\* constructed while a document is scored, so a keyword that is no pattern
\* throws only when there is a document.
retrievedWith(keywords, docs) ==
  retrievedKeywords(keywords,
                    IF Len(docs) = 0 THEN "" ELSE FirstInvalid(keywords), docs)

retrieved(question, docs) == retrievedWith(keywordsOf(question), docs)

\* The store in the order of the sorted chunks.
storeSorted(r, order, docs) ==
  [result |-> r,
   docs |-> IF r.threw THEN docs ELSE [j \in 1..Len(docs) |-> docs[order[j].doc]]]

storeSortedBy(r, docs) == storeSorted(r, sort(r.scores), docs)

\* The same call with the store sorted where it stands, as
\* dataStore.docs.sort(...) would.
retriever_invoke_sorting_store(question, docs) ==
  storeSortedBy(retrieved(question, docs), docs)

\* One call of retriever.invoke: what it computes, and dataStore.docs as the
\* call leaves it.  map builds a new array and that array is the one sort
\* reorders, so the store is only read.
retriever_invoke(question, docs) ==
  [result |-> retrieved(question, docs), docs |-> docs]

(***************************************************************************)
(* Prompt assembly.                                                        *)
(***************************************************************************)
\* prompt.template
template ==
  "Based on the following context, answer the question with a direct and exact answer. Be concise.\n\nContext:\n{context}\n\nQuestion: {question}\n\nAnswer (direct answer only):"

RECURSIVE GetSubstitution(_, _, _, _)
RECURSIVE SubstituteAt(_, _, _, _, _)
RECURSIVE SubstituteTwo(_, _, _, _, _, _)
\* The replacement text of String.prototype.replace with a string pattern:
\* $$ is a dollar, $& the matched text, $' the text after it; every other
\* character stands for itself.  (A dollar before a grave accent stands for
\* the text before the match; a TLA+ string cannot hold a grave accent, so
\* no input of this model has one.)
GetSubstitution(replacement, matched, before, after) ==
  SubstituteAt(replacement, matched, before, after, IndexOf(replacement, "$", 1))

\* d is the position of the first dollar of replacement, 0 when it has none.
SubstituteAt(replacement, matched, before, after, d) ==
  IF d = 0 THEN replacement
  ELSE SubSeq(replacement, 1, d - 1)
       \o SubstituteTwo(replacement, matched, before, after, d,
                        SubSeq(replacement, d, Min(d + 1, Len(replacement))))

\* two is the dollar at d with the character after it.
SubstituteTwo(replacement, matched, before, after, d, two) ==
  IF two \in {"$$", "$&", "$'"}
  THEN (IF two = "$$" THEN "$" ELSE IF two = "$&" THEN matched ELSE after)
       \o GetSubstitution(SubSeq(replacement, d + 2, Len(replacement)),
                          matched, before, after)
  ELSE "$" \o GetSubstitution(SubSeq(replacement, d + 1, Len(replacement)),
                              matched, before, after)

\* s with the occurrence of pattern at i replaced.
replaceParts(before, pattern, replacement, after) ==
  before \o GetSubstitution(replacement, pattern, before, after) \o after

replaceAt(s, pattern, replacement, i) ==
  IF i = 0 THEN s
  ELSE replaceParts(SubSeq(s, 1, i - 1), pattern, replacement,
                    SubSeq(s, i + Len(pattern), Len(s)))

\* String.prototype.replace(pattern, replacement), pattern a string: the first
\* occurrence only.
replace(s, pattern, replacement) ==
  replaceAt(s, pattern, replacement, IndexOf(s, pattern, 1))

\* prompt.template.replace('{context}', context).replace('{question}', question)
fullPromptOf(context, question) ==
  replace(replace(template, "{context}", context), "{question}", question)

(***************************************************************************)
(* llm.extractAnswer.                                                      *)
(***************************************************************************)
NoMatch == [found |-> FALSE, group |-> ""]

Match(group) == [found |-> TRUE, group |-> group]

RECURSIVE questionMatchFrom(_, _)
RECURSIVE questionMatchAt(_, _)
RECURSIVE questionMatchEnd(_, _, _)
\* input.match(/Question: (.+?)\n/): group 1 of the leftmost match from
\* position from on, NoMatch when there is none.  The group is one or more
\* characters other than a newline, up to the first newline.
questionMatchFrom(input, from) ==
  questionMatchAt(input, IndexOf(input, "Question: ", from))

\* "Question: " stands at s (0: nowhere).
questionMatchAt(input, s) ==
  IF s = 0 THEN NoMatch
  ELSE IF s + 10 <= Len(input) /\ IsDot(CharAt(input, s + 10))
  THEN questionMatchEnd(input, s, IndexOf(input, "\n", s + 11))
  ELSE questionMatchFrom(input, s + 1)

\* The first newline after the first character of the group is at e.
questionMatchEnd(input, s, e) ==
  IF e # 0 THEN Match(SubSeq(input, s + 10, e - 1))
  ELSE questionMatchFrom(input, s + 1)

RECURSIVE contextMatchFrom(_, _)
RECURSIVE contextMatchAt(_, _)
RECURSIVE contextMatchEnd(_, _, _)
\* input.match(/Context:\n([\s\S]+?)\n\nQuestion:/): group 1 of the leftmost
\* match; the lazy group ends before the first "\n\nQuestion:" that leaves it
\* at least one character.
contextMatchFrom(input, from) ==
  contextMatchAt(input, IndexOf(input, "Context:\n", from))

\* "Context:\n" stands at s (0: nowhere).
contextMatchAt(input, s) ==
  IF s = 0 THEN NoMatch
  ELSE contextMatchEnd(input, s, IndexOf(input, "\n\nQuestion:", s + 10))

\* The first "\n\nQuestion:" after the first character of the group is at e.
contextMatchEnd(input, s, e) ==
  IF e # 0 THEN Match(SubSeq(input, s + 9, e - 1))
  ELSE contextMatchFrom(input, s + 1)

\* m ? m[1] : ''
groupOf(m) == IF m.found THEN m.group ELSE ""

\* questionMatch ? questionMatch[1] : ''   (before .toLowerCase())
questionField(input) == groupOf(questionMatchFrom(input, 1))

\* contextMatch ? contextMatch[1] : ''   (before .toLowerCase())
contextField(input) == groupOf(contextMatchFrom(input, 1))

RECURSIVE nameMatchFrom(_, _)
RECURSIVE nameMatchAt(_, _)
RECURSIVE nameMatchSingh(_, _, _)
\* context.match(/navdeep\s+singh/i)[0]: the matched text of the leftmost
\* match at or after from, "" when there is none.  The context this function
\* is given is already lowercased, so the i flag changes nothing.
nameMatchFrom(context, from) ==
  nameMatchAt(context, IndexOf(context, "navdeep", from))

\* "navdeep" stands at s (0: nowhere).
nameMatchAt(context, s) ==
  IF s = 0 THEN ""
  ELSE nameMatchSingh(context, s, SkipSpaces(context, s + 7))

\* The whitespace after "navdeep" ends before q.
nameMatchSingh(context, s, q) ==
  IF q > s + 7 /\ StartsAt(context, "singh", q)
  THEN SubSeq(context, s, q + 4)
  ELSE nameMatchFrom(context, s + 1)

\* (?:year|yr)s? at y: the position after it, 0 when neither unit is there.
\* The optional s is taken when it is there; nothing after it in the pattern
\* can start with an s, so giving it back never helps.
unitEnd(context, y) ==
  IF StartsAt(context, "years", y) THEN y + 5
  ELSE IF StartsAt(context, "year", y) THEN y + 4
  ELSE IF StartsAt(context, "yrs", y) THEN y + 3
  ELSE IF StartsAt(context, "yr", y) THEN y + 2
  ELSE 0

\* (?:of\s*)?(?:experience|exp) at w: whether it matches there.
tailMatches(context, w) ==
  \/ StartsAt(context, "exp", w)
  \/ StartsAt(context, "of", w) /\ StartsAt(context, "exp", SkipSpaces(context, w + 2))

\* The digits that start at s end before d.
expMatchDigits(context, s, d) ==
  /\ d > s
  /\ unitEnd(context, SkipSpaces(context, d)) # 0
  /\ tailMatches(context, SkipSpaces(context, unitEnd(context, SkipSpaces(context, d))))

\* Whether /(\d+)\s*(?:year|yr)s?\s*(?:of\s*)?(?:experience|exp)/i matches at
\* position s.  Digits and whitespace are followed by a letter in the
\* pattern, so taking each run whole is the only way to match.
expMatchAt(context, s) == expMatchDigits(context, s, SkipDigits(context, s))

\* Group 1 of the match at s, "" when s is 0.
expGroup(context, s) ==
  IF s = 0 THEN "" ELSE SubSeq(context, s, SkipDigits(context, s) - 1)

\* context.match(/(\d+)\s*(?:year|yr)s?\s*(?:of\s*)?(?:experience|exp)/i)[1]
\* of the leftmost match, "" when there is none.
expMatchFrom(context, from) ==
  expGroup(context, LeastOr0({i \in from..Len(context) : expMatchAt(context, i)}))

skills == <<"React", "JavaScript", "NodeJS", "ExpressJS", "Redux", "HTML5", "CSS3", "jQuery">>

\* The triggers of the three rules, on the lowercased question.
isNameQuestion(question) == includes(question, "name") /\ includes(question, "portfolio")
isExperienceQuestion(question) == includes(question, "experience") /\ includes(question, "year")
isSkillQuestion(question) == includes(question, "skill") \/ includes(question, "technology")

\* x || fallback, for strings: the empty string is falsy.  (A match is never
\* empty here, so null and "" need not be told apart.)
orElse(x, fallback) == IF x # "" THEN x ELSE fallback

\* const nameMatch = context.match(...); return nameMatch ? nameMatch[0] : 'Navdeep Singh'
nameAnswer(context) == orElse(nameMatchFrom(context, 1), "Navdeep Singh")

\* expMatch[1] + ' years'
yearsOf(expMatch) == IF expMatch # "" THEN expMatch \o " years" ELSE ""

\* return expMatch ? expMatch[1] + ' years' : 'Experience duration not found in context'
experienceAnswer(context) ==
  orElse(yearsOf(expMatchFrom(context, 1)), "Experience duration not found in context")

\* skills.filter(s => context.includes(s.toLowerCase()))
foundSkills(context) ==
  SelectSeq(skills, LAMBDA s : includes(context, toLowerCase(s)))

\* return found.length > 0 ? found.join(', ') : 'Skills not clearly specified'
skillAnswer(context) ==
  orElse(join(foundSkills(context), ", "), "Skills not clearly specified")

\* The rule chain with the experience rule tried before the name rule.
answerOfRules_experience_first(input, question, context) ==
  IF isExperienceQuestion(question) THEN experienceAnswer(context)
  ELSE IF isNameQuestion(question) THEN nameAnswer(context)
  ELSE IF isSkillQuestion(question) THEN skillAnswer(context)
  ELSE input

\* The rule chain of llm.extractAnswer on the two lowercased fields.
answerOfRules(input, question, context) ==
  IF isNameQuestion(question) THEN nameAnswer(context)
  ELSE IF isExperienceQuestion(question) THEN experienceAnswer(context)
  ELSE IF isSkillQuestion(question) THEN skillAnswer(context)
  ELSE input

\* The fields as matched with the answer the rules give on them lowercased.
extracted(input, questionMatch, contextMatch) ==
  [question |-> questionMatch,
   context  |-> contextMatch,
   answer   |-> answerOfRules(input, toLowerCase(questionMatch),
                              toLowerCase(contextMatch))]

\* llm.extractAnswer(input): the two fields its parsing step recovers (as
\* matched, before they are lowercased) and the answer it returns.
extractAnswer(input) == extracted(input, questionField(input), contextField(input))

(***************************************************************************)
(* llm.invoke.  Its input is always a string here, so promptText is the    *)
(* input itself.  repo-rag.js answers by extraction whenever the service   *)
(* handle is bound; repo-rag-debug.js calls the generation service and     *)
(* waits for it.                                                           *)
(***************************************************************************)
Programs == {"repo-rag", "repo-rag-debug"}

Unavailable == "Unable to generate answer - HF_API_KEY not set"

\* The fields extractAnswer parsed in an invocation, if it ran in it, and the
\* text it parsed them from.
NoParse == [ran |-> FALSE, text |-> "", question |-> "", context |-> ""]
ParseOf(text, e) ==
  [ran |-> TRUE, text |-> text, question |-> e.question, context |-> e.context]

\* llm.invoke returning the answer of extraction e of text.
answered(text, e) ==
  [awaiting |-> FALSE, requests |-> <<>>, value |-> e.answer, parsed |-> ParseOf(text, e)]

\* An adapter that would not look at the service handle.
llm_invoke_unguarded(hf, input) == answered(input, extractAnswer(input))

\* llm.invoke of repo-rag.js, which runs to its return without waiting: with
\* the handle bound it answers by extraction and calls no service.
llm_invoke(hf, input) ==
  IF ~hf
  THEN [awaiting |-> FALSE, requests |-> <<>>, value |-> Unavailable, parsed |-> NoParse]
  ELSE answered(input, extractAnswer(input))

\* The argument of dataStore.hf.textGeneration in repo-rag-debug.js.
textGenerationRequest(promptText) ==
  [model |-> "gpt2", inputs |-> promptText, max_new_tokens |-> 50]

\* llm.invoke of repo-rag-debug.js up to its first await: it returns the
\* sentinel, or has called the service.
llm_invoke_debug(hf, input) ==
  IF ~hf
  THEN [awaiting |-> FALSE, requests |-> <<>>, value |-> Unavailable, parsed |-> NoParse]
  ELSE [awaiting |-> TRUE, requests |-> <<textGenerationRequest(input)>>,
        value |-> "", parsed |-> NoParse]

\* The generated text whatever it is.
answerOf_verbatim(result, promptText) == result.generated_text

\* result?.generated_text || promptText: a result is a record that may or may
\* not carry a generated_text.
answerOf(result, promptText) ==
  IF result.defined /\ result.generated_text # "" THEN result.generated_text
  ELSE promptText

\* A catch block that would hand the input back without extraction.
fallbackOf_echo(input) ==
  [awaiting |-> FALSE, requests |-> <<>>, value |-> input, parsed |-> NoParse]

\* The catch block of llm.invoke: return this.extractAnswer(input)
fallbackOf(input) == answered(input, extractAnswer(input))

\* A catch block that would return the bare message.
chainCatch_bare(message) == message

\* The catch block of chain.invoke: return "Error: " + error.message
chainCatch(message) == "Error: " \o message

(***************************************************************************)
(* The inputs.                                                             *)
(***************************************************************************)
\* The longest Chunk Store of the retriever's own specification, and of the
\* specification of the whole program.
MaxDocs == 7
MaxChainDocs == 2

Doc(text) == [pageContent |-> text]

RECURSIVE StoresOver(_, _)
\* Every Chunk Store of at most n documents with contents among texts.
StoresOver(texts, n) ==
  IF n = 0 THEN {<<>>}
  ELSE {<<>>} \cup {<<Doc(t)>> \o d : t \in texts, d \in StoresOver(texts, n - 1)}

RetrieverTexts == {"abc", "xyz Abc abcc"}

RetrieverQuestions ==
  {"abc", "xyz ABC", "ab+c", "is it", "", " ab  c\n", "abc c++", "this? bc."}

ChainTexts == {"Portfolio of Navdeep Singh", "5 years experience in React"}

ChainQuestions ==
  {"name of the person whose portfolio is this?",
   "how many years of experience?",
   "what is the weather today?",
   "c++ experience",
   "is it"}

\* The questions put to the retriever directly in the whole program.
DirectQuestions == {"how many years of experience?", "c++ experience"}

\* The contexts and questions of the prompts given to llm.invoke and to
\* llm.extractAnswer directly.
PromptContexts ==
  {"",
   "Navdeep Singh",
   "I am NAVDEEP   SINGH here",
   "navdeepsingh",
   "5 years of experience",
   "12yrs exp",
   "uses react and html5",
   "jquery css3 nodejs",
   "Navdeep Singh has 3 years experience in React",
   "FAQ\nQuestion: who?\nAnswer: me",
   "intro\n\nQuestion: what skills?\nmore",
   "plain text\n"}

PromptQuestions ==
  {"",
   "name of the person whose portfolio is this?",
   "how many years of experience?",
   "what skills does he have?",
   "what is the weather today?",
   "NAME on the PORTFOLIO",
   "name portfolio experience year",
   "portfolio name and skill",
   "years of experience in technology",
   "first line\nsecond line"}

\* Texts that are no prompt of the template.
OtherTexts == {"", "no markers", "Question: only the question\n", "Context:\nonly the context"}

PromptTexts ==
  {fullPromptOf(c, q) : c \in PromptContexts, q \in PromptQuestions} \cup OtherTexts

\* The Chunk Stores of the specification of single invocations.
UnitStores == {<<>>, <<Doc("Portfolio of Navdeep Singh")>>}

\* What the generation service may answer, and how it may fail.
GenerationResults ==
  {[defined |-> TRUE, generated_text |-> "Navdeep"],
   [defined |-> TRUE, generated_text |-> ""],
   [defined |-> FALSE, generated_text |-> ""]}

GenerationErrors == {"fetch failed", "Service Unavailable"}

(***************************************************************************)
(* The state.                                                              *)
(***************************************************************************)
VARIABLES
  dataStore,    \* [docs, hf]: the Chunk Store and whether the service handle is bound
  program,      \* which of the two programs runs
  pc,           \* "idle", or "textGeneration" while llm.invoke awaits the service
  op,           \* the invocation in progress or last completed, "none" at first
  input,        \* its argument
  retrieval,    \* what retriever.invoke computed in it
  fullPrompt,   \* the prompt text llm.invoke was given in it
  requests,     \* the textGeneration requests issued in it
  response,     \* how the generation service answered in it
  parsed,       \* the fields extractAnswer parsed in it
  outcome       \* how it ended: [kind, value]

vars ==
  <<dataStore, program, pc, op, input, retrieval, fullPrompt, requests, response,
    parsed, outcome>>

NoRetrieval ==
  [ran |-> FALSE, threw |-> FALSE, message |-> "", keywords |-> <<>>,
   scores |-> <<>>, top |-> <<>>, context |-> ""]

\* The retrieval of a call that returned, and of one that threw message m.
RetrievalOf(r) ==
  [ran |-> TRUE, threw |-> FALSE, message |-> "", keywords |-> r.keywords,
   scores |-> r.scores, top |-> r.top, context |-> r.context]

ThrownRetrieval(r, m) ==
  [ran |-> TRUE, threw |-> TRUE, message |-> m, keywords |-> r.keywords,
   scores |-> <<>>, top |-> <<>>, context |-> ""]

NoResponse == [kind |-> "none", result |-> [defined |-> FALSE, generated_text |-> ""],
               message |-> ""]
Resolved(result) == [kind |-> "resolved", result |-> result, message |-> ""]
Rejected(message) ==
  [kind |-> "rejected", result |-> [defined |-> FALSE, generated_text |-> ""],
   message |-> message]

Pending == [kind |-> "pending", value |-> ""]
Returned(v) == [kind |-> "returned", value |-> v]
Raised(m) == [kind |-> "raised", value |-> m]

InitWith(stores, handles, programs) ==
  /\ dataStore \in [docs : stores, hf : handles]
  /\ program \in programs
  /\ pc = "idle"
  /\ op = "none"
  /\ input = ""
  /\ retrieval = NoRetrieval
  /\ fullPrompt = ""
  /\ requests = <<>>
  /\ response = NoResponse
  /\ parsed = NoParse
  /\ outcome = Pending

(***************************************************************************)
(* The operations.                                                         *)
(***************************************************************************)
\* llm.invoke(promptText) of the running program, up to its return or to its
\* await of the generation service.
LlmStepTo(promptText, r) ==
  /\ fullPrompt' = promptText
  /\ requests' = r.requests
  /\ response' = NoResponse
  /\ parsed' = r.parsed
  /\ outcome' = IF r.awaiting THEN Pending ELSE Returned(r.value)
  /\ pc' = IF r.awaiting THEN "textGeneration" ELSE "idle"

LlmStep(promptText) ==
  LlmStepTo(promptText,
            IF program = "repo-rag" THEN llm_invoke(dataStore.hf, promptText)
            ELSE llm_invoke_debug(dataStore.hf, promptText))

\* retriever.invoke(question), called on the retriever createRAGChain returns.
RetrieverInvokeTo(r) ==
  /\ dataStore' = [dataStore EXCEPT !.docs = r.docs]
  /\ IF r.result.threw
     THEN \E m \in SyntaxErrorMessages(r.result.pattern) :
             /\ retrieval' = ThrownRetrieval(r.result, m)
             /\ outcome' = Raised(m)
     ELSE /\ retrieval' = RetrievalOf(r.result)
          /\ outcome' = Returned(r.result.context)

RetrieverInvoke(question) ==
  /\ pc = "idle"
  /\ op' = "retriever.invoke"
  /\ input' = question
  /\ RetrieverInvokeTo(retriever_invoke(question, dataStore.docs))
  /\ fullPrompt' = ""
  /\ requests' = <<>>
  /\ response' = NoResponse
  /\ parsed' = NoParse
  /\ UNCHANGED <<program, pc>>

\* chain.invoke(question): retrieval, prompt assembly and llm.invoke inside
\* one try block, whose catch block turns what is thrown into the answer.
ChainInvokeTo(question, r) ==
  /\ dataStore' = [dataStore EXCEPT !.docs = r.docs]
  /\ IF r.result.threw
     THEN /\ \E m \in SyntaxErrorMessages(r.result.pattern) :
                /\ retrieval' = ThrownRetrieval(r.result, m)
                /\ outcome' = Returned(chainCatch(m))
          /\ fullPrompt' = ""
          /\ requests' = <<>>
          /\ response' = NoResponse
          /\ parsed' = NoParse
          /\ UNCHANGED pc
     ELSE /\ retrieval' = RetrievalOf(r.result)
          /\ LlmStep(fullPromptOf(r.result.context, question))

ChainInvoke(question) ==
  /\ pc = "idle"
  /\ op' = "chain.invoke"
  /\ input' = question
  /\ ChainInvokeTo(question, retriever_invoke(question, dataStore.docs))
  /\ UNCHANGED program

\* llm.invoke(promptText) called on its own.
LlmInvoke(promptText) ==
  /\ pc = "idle"
  /\ op' = "llm.invoke"
  /\ input' = promptText
  /\ retrieval' = NoRetrieval
  /\ LlmStep(promptText)
  /\ UNCHANGED <<dataStore, program>>

\* The generation service answers: llm.invoke returns, and chain.invoke
\* returns what llm.invoke returned.
TextGenerationResolves(result) ==
  /\ pc = "textGeneration"
  /\ response' = Resolved(result)
  /\ outcome' = Returned(answerOf(result, fullPrompt))
  /\ pc' = "idle"
  /\ UNCHANGED <<dataStore, program, op, input, retrieval, fullPrompt, requests, parsed>>

ExtractionTo(r) ==
  /\ parsed' = r.parsed
  /\ outcome' = Returned(r.value)

\* The generation service fails: llm.invoke falls back to extraction.
TextGenerationRejects(message) ==
  /\ pc = "textGeneration"
  /\ response' = Rejected(message)
  /\ ExtractionTo(fallbackOf(fullPrompt))
  /\ pc' = "idle"
  /\ UNCHANGED <<dataStore, program, op, input, retrieval, fullPrompt, requests>>

\* llm.extractAnswer(text) called on its own.
ExtractAnswer(text) ==
  /\ pc = "idle"
  /\ op' = "extractAnswer"
  /\ input' = text
  /\ retrieval' = NoRetrieval
  /\ fullPrompt' = ""
  /\ requests' = <<>>
  /\ response' = NoResponse
  /\ ExtractionTo(answered(text, extractAnswer(text)))
  /\ UNCHANGED <<dataStore, program, pc>>

(***************************************************************************)
(* The whole program: any sequence of chain.invoke and retriever.invoke.   *)
(***************************************************************************)
Init == InitWith(StoresOver(ChainTexts, MaxChainDocs), BOOLEAN, Programs)

Next ==
  \/ \E question \in ChainQuestions : ChainInvoke(question)
  \/ \E question \in DirectQuestions : RetrieverInvoke(question)
  \/ \E result \in GenerationResults : TextGenerationResolves(result)
  \/ \E message \in GenerationErrors : TextGenerationRejects(message)

Spec == Init /\ [][Next]_vars

(***************************************************************************)
(* The retriever on its own: one call, over every Chunk Store of at most   *)
(* MaxDocs documents.  Nothing of the retriever reads the service handle   *)
(* or differs between the two programs.                                    *)
(***************************************************************************)
RetrieverInit == InitWith(StoresOver(RetrieverTexts, MaxDocs), {FALSE}, {"repo-rag"})

RetrieverNext ==
  op = "none" /\ \E question \in RetrieverQuestions : RetrieverInvoke(question)

RetrieverSpec == RetrieverInit /\ [][RetrieverNext]_vars

(***************************************************************************)
(* Single invocations: llm.invoke and llm.extractAnswer on every prompt    *)
(* text, and chain.invoke, each from the initial state.                    *)
(***************************************************************************)
UnitInit == InitWith(UnitStores, BOOLEAN, Programs)

UnitNext ==
  \/ op = "none" /\ \E text \in PromptTexts : LlmInvoke(text)
  \/ op = "none" /\ \E text \in PromptTexts : ExtractAnswer(text)
  \/ op = "none" /\ \E question \in ChainQuestions : ChainInvoke(question)
  \/ \E result \in GenerationResults : TextGenerationResolves(result)
  \/ \E message \in GenerationErrors : TextGenerationRejects(message)

UnitSpec == UnitInit /\ [][UnitNext]_vars

(***************************************************************************)
(* Properties of chain.invoke and of llm.invoke.                           *)
(***************************************************************************)
ChainReturned == op = "chain.invoke" /\ pc = "idle" /\ outcome.kind = "returned"

AdapterInvoked == op \in {"llm.invoke", "chain.invoke"} /\ ~retrieval.threw

AdapterReturned == AdapterInvoked /\ pc = "idle" /\ outcome.kind = "returned"

StartsWithError(v) == StartsAt(v, "Error: ", 1)

\* C1: chain.invoke never raises and always returns a string: while it runs it
\* only awaits the generation service, and once it is over its outcome is a
\* returned value.  When a stage raises with message m the returned string is
\* exactly "Error: " followed by m.  Retrieval is the stage that can raise
\* (a keyword that is no regular expression); prompt assembly raises on no
\* string, and llm.invoke handles the failure of the generation service itself.
C1_ChainTotal ==
  op = "chain.invoke" =>
    /\ outcome.kind # "raised"
    /\ pc = "idle" => outcome.kind = "returned"
    /\ retrieval.threw =>
         /\ pc = "idle"
         /\ outcome.value = "Error: " \o retrieval.message

\* chain.invoke has returned the message of a retrieval that threw.
C1_Witness ==
  ChainReturned /\ retrieval.threw /\ Len(dataStore.docs) > 0
  /\ outcome.value = "Error: Invalid regular expression: /c++/: Nothing to repeat"

\* C2: whenever the handle is bound and the call of the generation service
\* fails, llm.invoke does not raise and returns exactly the answer that
\* extractAnswer gives on the prompt text it was called with; chain.invoke
\* returns that answer too, and not an "Error: ..." string.
C2_FallbackOnFailure ==
  response.kind = "rejected" =>
    /\ dataStore.hf
    /\ pc = "idle"
    /\ outcome = Returned(extractAnswer(fullPrompt).answer)
    /\ parsed.ran /\ parsed.text = fullPrompt
    /\ ~StartsWithError(outcome.value)

\* The service failed under chain.invoke, and extraction gave an answer that
\* is not the prompt.
C2_Witness ==
  /\ ChainReturned
  /\ response.kind = "rejected"
  /\ outcome.value = "navdeep singh"
  /\ outcome.value # fullPrompt

\* C3: with no service handle bound (dataStore.hf is null), llm.invoke returns
\* the sentinel "Unable to generate answer - HF_API_KEY not set" for every
\* prompt, and neither a call of the generation service nor an extraction is
\* attempted; in both programs.
C3_NoHandleSentinel ==
  AdapterInvoked /\ ~dataStore.hf =>
    /\ pc = "idle"
    /\ outcome = Returned("Unable to generate answer - HF_API_KEY not set")
    /\ requests = <<>>
    /\ response.kind = "none"
    /\ ~parsed.ran

\* llm.invoke has returned the sentinel on a prompt whose question would
\* trigger an extraction rule.
C3_Witness ==
  /\ op = "llm.invoke" /\ ~dataStore.hf /\ pc = "idle"
  /\ input = fullPromptOf("Navdeep Singh", "name of the person whose portfolio is this?")
  /\ outcome.value = Unavailable

RetrieverReturned == op = "retriever.invoke" /\ outcome.kind = "returned"

\* The documents of the store that top refers to.
TopDocs == {retrieval.top[j].doc : j \in 1..Len(retrieval.top)}

\* The score retriever.invoke gave document i of the store.
ScoreOf(i) == retrieval.scores[i].score

\* The contents of the documents listed in order, a blank line between them.
ContentsOf(order) ==
  join([j \in 1..Len(order) |-> dataStore.docs[order[j]].pageContent], "\n\n")

C9_StoreImmutable == [][dataStore'.docs = dataStore.docs]_vars

\* chain.invoke has returned after a retrieval whose sort put a chunk other
\* than the first of the store first.
C9_Witness ==
  /\ ChainReturned
  /\ ~retrieval.threw
  /\ Len(dataStore.docs) = 2
  /\ retrieval.top[1].doc = 2
  /\ dataStore.docs[1] # dataStore.docs[2]

\* Whether no three characters in a row of s are all other than whitespace,
\* that is, whether every whitespace-separated token of s has length <= 2.
AllTokensShort(s) ==
  \A i \in 1..(Len(s) - 2) :
    IsSpace(CharAt(s, i)) \/ IsSpace(CharAt(s, i + 1)) \/ IsSpace(CharAt(s, i + 2))

\* C10: when every whitespace-separated token of the question has length <= 2
\* (the empty question included), the keyword set is empty, every chunk
\* scores 0 and the returned context is the contents of the first
\* min(6, store size) chunks in the order of the store, joined by a blank line.
C10_EmptyKeywords ==
  op = "retriever.invoke" /\ AllTokensShort(input) =>
    /\ outcome.kind = "returned"
    /\ retrieval.keywords = <<>>
    /\ \A i \in 1..Len(dataStore.docs) : ScoreOf(i) = 0
    /\ outcome.value = ContentsOf([j \in 1..Min(6, Len(dataStore.docs)) |-> j])

\* A question of short tokens on a store of more than six differing chunks,
\* one of which holds a token of the question.
C10_Witness ==
  /\ RetrieverReturned
  /\ input = " ab  c\n"
  /\ Len(dataStore.docs) > 6
  /\ dataStore.docs[1].pageContent = "xyz Abc abcc"
  /\ dataStore.docs[2].pageContent = "abc"
  /\ outcome.value = ContentsOf(<<1, 2, 3, 4, 5, 6>>)

(***************************************************************************)
(* Properties of llm.extractAnswer.                                        *)
(***************************************************************************)
ExtractorRan == parsed.ran /\ pc = "idle" /\ outcome.kind = "returned"

\* The well-formed prompt of context c and question q: the fixed template
\* with c after "Context:" and q after "Question: ".
WellFormed(c, q) ==
  "Based on the following context, answer the question with a direct and exact answer. Be concise.\n\nContext:\n"
  \o c \o "\n\nQuestion: " \o q \o "\n\nAnswer (direct answer only):"

\* C6: for every well-formed prompt of a context C and a question Q, the
\* parsing step of extractAnswer recovers Q as the question field and C as the
\* context field; a text without a marker gives the empty field.  (Refuted:
\* a context that holds a line "Question: ..." or the text "\n\nQuestion:",
\* and a question of more than one line, are not recovered.)
C6_RoundTrip ==
  ExtractorRan =>
    /\ \A c \in PromptContexts, q \in PromptQuestions :
         parsed.text = WellFormed(c, q) => parsed.question = q /\ parsed.context = c
    /\ ~includes(parsed.text, "Question: ") => parsed.question = ""
    /\ ~includes(parsed.text, "Context:\n") => parsed.context = ""

\* The lowercased fields the rules of extractAnswer work on.
QuestionLower == toLowerCase(parsed.question)
ContextLower == toLowerCase(parsed.context)

\* Where /navdeep\s+singh/i matches in the context first (0: nowhere), and
\* the text of the context there.
NameStart == IndexOf(ContextLower, nameMatchFrom(ContextLower, 1), 1)
NameAsInContext ==
  SubSeq(parsed.context, NameStart, NameStart + Len(nameMatchFrom(ContextLower, 1)) - 1)

\* C7: when the question holds both "name" and "portfolio", extractAnswer
\* returns the text the name pattern matched as it appears in the context,
\* and "Navdeep Singh" when the context has no match.  (Refuted: the context
\* is lowercased before it is matched, so the text returned is lowercase.)
C7_NameLiteral ==
  ExtractorRan /\ includes(QuestionLower, "name") /\ includes(QuestionLower, "portfolio") =>
    outcome.value = IF nameMatchFrom(ContextLower, 1) # "" THEN NameAsInContext
                    ELSE "Navdeep Singh"

\* The shapes of the answers of the three rules; no two of them share an
\* answer, and none is a text given to extractAnswer.
IsNameAnswer(v) == v = "Navdeep Singh" \/ StartsAt(v, "navdeep", 1)
IsExperienceAnswer(v) ==
  \/ v = "Experience duration not found in context"
  \/ Len(v) > 6 /\ IsDigit(CharAt(v, 1)) /\ SubSeq(v, Len(v) - 5, Len(v)) = " years"
IsSkillAnswer(v) ==
  \/ v = "Skills not clearly specified"
  \/ \E i \in 1..Len(skills) : StartsAt(v, skills[i], 1)

TriggersName == includes(QuestionLower, "name") /\ includes(QuestionLower, "portfolio")
TriggersExperience == includes(QuestionLower, "experience") /\ includes(QuestionLower, "year")
TriggersSkill == includes(QuestionLower, "skill") \/ includes(QuestionLower, "technology")

\* C8: the rules are tried in the order name, experience, skill, fall-through
\* and the first one triggered alone gives the answer: a question that
\* triggers the name rule gets a name answer whatever else it triggers, one
\* that triggers the experience rule and not the name rule an experience
\* answer, one that triggers only the skill rule a skill answer, and when no
\* rule is triggered the text given is returned unchanged.
C8_FirstRuleWins ==
  ExtractorRan =>
    /\ TriggersName => IsNameAnswer(outcome.value)
    /\ ~TriggersName /\ TriggersExperience => IsExperienceAnswer(outcome.value)
    /\ ~TriggersName /\ ~TriggersExperience /\ TriggersSkill => IsSkillAnswer(outcome.value)
    /\ ~TriggersName /\ ~TriggersExperience /\ ~TriggersSkill => outcome.value = parsed.text

\* A question that triggers the name rule and the experience rule, on a
\* context where both rules would find their pattern.
C8_Witness ==
  /\ op = "extractAnswer" /\ ExtractorRan
  /\ TriggersName /\ TriggersExperience
  /\ nameMatchFrom(ContextLower, 1) # ""
  /\ expMatchFrom(ContextLower, 1) # ""
  /\ IsNameAnswer(outcome.value) /\ ~IsExperienceAnswer(outcome.value)

====
